---- MODULE Spec2Model ----
(***************************************************************************)
(* Model of the analog gauge reader engine                                 *)
(* (custom_components/analog_gauge_reader/image_processing.py).            *)
(*                                                                         *)
(* Number representation.                                                  *)
(*  - Gauge values (min_val, max_val, readings) are integers counting      *)
(*    thousandths of the gauge unit: 3000 is 3.0 bar, 4 is 0.004 bar.      *)
(*    round(x, 2) therefore yields multiples of 10.                        *)
(*  - An angle in radians is an integer k standing for k * pi/36 rad, so   *)
(*    math.degrees maps k to 5 * k degrees. Degrees are plain integers.    *)
(*  - fraction = relative_angle / gauge_sweep is kept exact: a reading     *)
(*    before rounding is a numerator over the denominator gauge_sweep.     *)
(*  - The code computes in binary floating point. math.degrees of a        *)
(*    multiple of pi/36 can differ from the multiple of 5 by one unit in   *)
(*    the last place, and round(x, 2) of an exact tie follows the float's  *)
(*    binary expansion. Neither changes a returned value on the inputs     *)
(*    enumerated here: no reading over CalValues and Angles is a tie, and  *)
(*    the angles at the branch boundaries (45 and 135 degrees) convert     *)
(*    exactly.                                                             *)
(***************************************************************************)
EXTENDS Integers, Sequences, FiniteSets

\* ------------------------------------------------------------------ bounds
\* Angles handed to _angle_to_reading range over -MaxAngleK..MaxAngleK units
\* of pi/36 rad (36 units = pi).
MaxAngleK == 36

\* ------------------------------------------------------- program constants
gauge_start == 225
gauge_sweep == 270

\* Degrees per angle unit (pi/36 rad = 5 degrees): the factor of math.degrees.
DegPerUnit == 5

\* Calibration bounds a configuration entry may hold (thousandths).
CalValues == {0, 4, 2996, 3000}

Angles == (-MaxAngleK)..MaxAngleK

\* region.orientation lies within -pi/2..pi/2 ("Radians, -pi/2 to pi/2"):
\* 90 degrees in angle units.
MaxOrientation == 90 \div DegPerUnit

Min2(a, b) == IF b < a THEN b ELSE a
Max2(a, b) == IF b > a THEN b ELSE a

\* ------------------------------------------------------ _angle_to_reading
\* math.degrees(angle_rad)
Degrees(angle_rad) == angle_rad * DegPerUnit

\* Mutant of NeedleAngle: the +90 adjustment is left out.
NeedleAngleNoOffset(angle_rad) == Degrees(angle_rad) % 360

\* needle_angle = (angle_deg + 90) % 360
NeedleAngle(angle_rad) == (Degrees(angle_rad) + 90) % 360

\* Mutant of RelativeAngle: gauge_start is not subtracted.
RelativeAngleNoStart(needle_angle) == needle_angle % 360

\* relative_angle = (needle_angle - gauge_start) % 360
RelativeAngle(needle_angle) == (needle_angle - gauge_start) % 360

\* Mutant of AltAngle: the needle is turned by a quarter, not a half, turn.
AltAngleQuarterTurn(needle_angle) == (needle_angle + 90 - gauge_start) % 360

\* alt_angle = (needle_angle + 180 - gauge_start) % 360
AltAngle(needle_angle) == (needle_angle + 180 - gauge_start) % 360

\* Mutant of WrapCorrect: the antipode is never tried, the angle is clamped.
WrapCorrectClampOnly(needle_angle, relative_angle) ==
    IF relative_angle > gauge_sweep THEN Min2(relative_angle, gauge_sweep)
    ELSE relative_angle

\* The "Clamp to valid range" block: the relative angle after the
\* wrong-side correction.
WrapCorrect(needle_angle, relative_angle) ==
    IF relative_angle > gauge_sweep
    THEN IF AltAngle(needle_angle) <= gauge_sweep
         THEN AltAngle(needle_angle)
         ELSE Min2(relative_angle, gauge_sweep)
    ELSE relative_angle

\* Mutant of ScaleReading: the scale runs from max_val down to min_val.
ScaleReadingInverted(relative_angle, min_val, max_val) ==
    max_val * gauge_sweep - relative_angle * (max_val - min_val)

\* reading = min_val + fraction * (max_val - min_val), fraction =
\* relative_angle / gauge_sweep; the result is the numerator over gauge_sweep.
ScaleReading(relative_angle, min_val, max_val) ==
    min_val * gauge_sweep + relative_angle * (max_val - min_val)

\* reading = max(min_val, min(max_val, reading)), on numerators over
\* gauge_sweep.
ClampReading(num, min_val, max_val) ==
    Max2(min_val * gauge_sweep, Min2(max_val * gauge_sweep, num))

\* round(reading, 2) of the value num/gauge_sweep thousandths: the nearest
\* multiple of 10 thousandths, ties to the even hundredth.
Round2(num) ==
    LET unit == 10 * gauge_sweep
        q == num \div unit
        r == num % unit
    IN  IF 2 * r > unit THEN 10 * (q + 1)
        ELSE IF 2 * r < unit THEN 10 * q
        ELSE IF q % 2 = 0 THEN 10 * q ELSE 10 * (q + 1)

\* _angle_to_reading(angle_rad, min_val, max_val): the locals of the call and
\* the value it returns (reading).
AngleToReading(angle_rad, min_val, max_val) ==
    LET needle_angle == NeedleAngle(angle_rad)
        first_relative == RelativeAngle(needle_angle)
        relative_angle == WrapCorrect(needle_angle, first_relative)
        scaled == ScaleReading(relative_angle, min_val, max_val)
        clamped == ClampReading(scaled, min_val, max_val)
    IN  [ angle_rad      |-> angle_rad,
          needle_angle   |-> needle_angle,
          first_relative |-> first_relative,
          alt_angle      |-> AltAngle(needle_angle),
          relative_angle |-> relative_angle,
          reading        |-> Round2(clamped) ]

\* No call of _angle_to_reading has been made.
NoCall == [ angle_rad |-> 0, needle_angle |-> -1, first_relative |-> -1,
            alt_angle |-> -1, relative_angle |-> -1, reading |-> -1 ]

\* ------------------------------------------------- images and their regions
\* Most regions one image holds, both threshold directions together.
MaxRegions == 2

\* None, and a value that is not None.
None == << >>
Some(v) == << v >>

\* The threshold directions, in the order the loop tries them.
Directions == << "darker", "lighter" >>

\* morphology.remove_small_objects(binary, min_size=50)
min_size == 50

\* Region properties as measure.regionprops reports them: area in pixels,
\* eccentricity in hundredths, major_axis_length in pixels, orientation in
\* angle units within [-pi/2, pi/2], centroid as (row, column).
Lengths == {30, 50}
Orientations == {0, 15}

\* Elongated regions near the image centre.
NeedleRegions ==
    { [ area |-> 150, eccentricity |-> 95, major_axis_length |-> l,
        orientation |-> o, centroid |-> << 150, 200 >> ] :
      l \in Lengths, o \in Orientations }

\* Regions on the edge of each filter: eccentricity exactly 0.7, area exactly
\* 100, centroid exactly radius_estimate from the centre, and a speck below
\* min_size.
OtherRegions ==
    { [ area |-> 1400, eccentricity |-> 70, major_axis_length |-> 50,
        orientation |-> 0, centroid |-> << 150, 200 >> ],
      [ area |-> 100, eccentricity |-> 95, major_axis_length |-> 30,
        orientation |-> 0, centroid |-> << 150, 200 >> ],
      [ area |-> 150, eccentricity |-> 95, major_axis_length |-> 50,
        orientation |-> 0, centroid |-> << 150, 300 >> ],
      [ area |-> 30, eccentricity |-> 95, major_axis_length |-> 20,
        orientation |-> 0, centroid |-> << 150, 200 >> ] }

RegionPool == NeedleRegions \cup OtherRegions

\* A byte buffer that imread cannot parse: empty, or corrupt.
CorruptImages ==
    { [ len |-> n, decodable |-> FALSE, height |-> 0, width |-> 0,
        darker |-> << >>, lighter |-> << >> ] : n \in {0, 2000} }

\* A buffer imread parses, with the connected components each threshold
\* direction holds: kd regions in the darker binary image, kl in the lighter.
ImagesOfSize(kd, kl) ==
    { [ len |-> 2000, decodable |-> TRUE, height |-> 300, width |-> 400,
        darker |-> d, lighter |-> l ] :
      d \in [1..kd -> RegionPool], l \in [1..kl -> RegionPool] }

DecodableImages ==
    UNION { UNION { ImagesOfSize(kd, kl) : kl \in 0..(MaxRegions - kd) } :
            kd \in 0..MaxRegions }

Images == CorruptImages \cup DecodableImages

NoImage == [ len |-> 0, decodable |-> FALSE, height |-> 0, width |-> 0,
             darker |-> << >>, lighter |-> << >> ]

\* The library call that raises during a run, if any: the step, and the
\* threshold direction whose iteration it belongs to.
PolaritySteps == { "remove_small_objects", "closing", "label", "regionprops" }
NoFault == [ direction |-> "none", step |-> "none" ]
Faults ==
    { NoFault, [ direction |-> "none", step |-> "threshold_otsu" ] } \cup
    { [ direction |-> d, step |-> s ] :
      d \in { "darker", "lighter" }, s \in PolaritySteps }

\* ------------------------------------------------- _detect_gauge_threshold
\* center_x, center_y = width // 2, height // 2
CenterX(image) == image.width \div 2
CenterY(image) == image.height \div 2

\* radius_estimate = min(height, width) // 3
RadiusEstimate(image) == Min2(image.height, image.width) \div 3

\* dist_to_center squared: (cx - center_x)**2 + (cy - center_y)**2, with
\* cy, cx = region.centroid.
DistSq(region, image) ==
    LET cy == region.centroid[1]
        cx == region.centroid[2]
    IN  (cx - CenterX(image)) * (cx - CenterX(image))
        + (cy - CenterY(image)) * (cy - CenterY(image))

\* The two nested ifs that admit a region as a needle candidate.
IsCandidate(region, image) ==
    /\ region.eccentricity > 70
    /\ region.area > 100
    /\ DistSq(region, image) < RadiusEstimate(image) * RadiusEstimate(image)

\* The entry appended to best_candidates for a region.
Candidate(region, image, direction) ==
    [ region      |-> region,
      length      |-> region.major_axis_length,
      dist_sq     |-> DistSq(region, image),
      orientation |-> region.orientation,
      direction   |-> direction ]

\* The regions measure.regionprops reports for one direction: the components
\* of the binary image, less those remove_small_objects removed. When
\* remove_small_objects raises, the exception is passed over and the binary
\* image keeps its small objects.
LabelledRegions(image, direction, fault) ==
    LET Kept(r) == r.area >= min_size
    IN  IF fault = [ direction |-> direction, step |-> "remove_small_objects" ]
        THEN image[direction]
        ELSE SelectSeq(image[direction], Kept)

\* The candidates one iteration of the direction loop appends.
PolarityCandidates(image, direction, fault) ==
    LET regions == LabelledRegions(image, direction, fault)
        Admitted(r) == IsCandidate(r, image)
        kept == SelectSeq(regions, Admitted)
    IN  [ i \in 1..Len(kept) |-> Candidate(kept[i], image, direction) ]

\* Whether the iteration for a direction raises out of the loop: closing,
\* label and regionprops are called outside any try block.
Raises(direction, fault) ==
    /\ fault.direction = direction
    /\ fault.step \in { "closing", "label", "regionprops" }

\* for direction in ['darker', 'lighter']: the directions whose iteration
\* ran to its end, the candidates appended, and whether an exception left
\* the loop.
ThresholdLoop(image, fault) ==
    IF Raises("darker", fault)
    THEN [ raised |-> TRUE, polarities |-> << >>, best_candidates |-> << >> ]
    ELSE IF Raises("lighter", fault)
    THEN [ raised |-> TRUE, polarities |-> << "darker" >>,
           best_candidates |-> PolarityCandidates(image, "darker", fault) ]
    ELSE [ raised |-> FALSE, polarities |-> Directions,
           best_candidates |-> PolarityCandidates(image, "darker", fault)
                               \o PolarityCandidates(image, "lighter", fault) ]

\* The position list.sort gives x in a list already sorted by descending
\* length: behind every entry at least as long (the sort is stable).
InsertByLength(sorted, x) ==
    LET k == Cardinality({ i \in 1..Len(sorted) : sorted[i].length >= x.length })
    IN  SubSeq(sorted, 1, k) \o << x >> \o SubSeq(sorted, k + 1, Len(sorted))

\* x goes in front of the entries of its own length.
InsertByLengthInFront(sorted, x) ==
    LET k == Cardinality({ i \in 1..Len(sorted) : sorted[i].length > x.length })
    IN  SubSeq(sorted, 1, k) \o << x >> \o SubSeq(sorted, k + 1, Len(sorted))

RECURSIVE SortFrom(_, _, _)
SortFrom(candidates, i, sorted) ==
    IF i > Len(candidates) THEN sorted
    ELSE SortFrom(candidates, i + 1, InsertByLength(sorted, candidates[i]))

RECURSIVE SortFromUnstable(_, _, _)
SortFromUnstable(candidates, i, sorted) ==
    IF i > Len(candidates) THEN sorted
    ELSE SortFromUnstable(candidates, i + 1,
                          InsertByLengthInFront(sorted, candidates[i]))

\* Mutant of SortByLength: among candidates of one length the latest
\* discovered comes first.
SortByLengthUnstable(candidates) == SortFromUnstable(candidates, 1, << >>)

\* best_candidates.sort(key=lambda x: x['length'], reverse=True)
SortByLength(candidates) == SortFrom(candidates, 1, << >>)

\* Mutant of SelectLongest: the empty list is not tested for, and
\* best_candidates[0] raises IndexError.
SelectLongestUnchecked(candidates) ==
    IF candidates = << >>
    THEN [ raised |-> TRUE, best_candidates |-> << >>, best_candidate |-> None ]
    ELSE [ raised |-> FALSE,
           best_candidates |-> SortByLength(candidates),
           best_candidate |-> Some(SortByLength(candidates)[1]) ]

\* if not best_candidates: return None; otherwise sort and take
\* best_candidates[0].
SelectLongest(candidates) ==
    IF candidates = << >>
    THEN [ raised |-> FALSE, best_candidates |-> << >>, best_candidate |-> None ]
    ELSE [ raised |-> FALSE,
           best_candidates |-> SortByLength(candidates),
           best_candidate |-> Some(SortByLength(candidates)[1]) ]

\* _detect_gauge_threshold(gray, min_val, max_val, height, width): what it
\* returns, whether an exception leaves it, and its locals: the directions
\* processed, the candidates in discovery order (as logged), the sorted
\* list, the selected candidate and the _angle_to_reading call made.
DetectGaugeThreshold(image, fault, min_val, max_val) ==
    LET loop == ThresholdLoop(image, fault)
        pick == SelectLongest(loop.best_candidates)
        blank == [ raised |-> TRUE, polarities |-> << >>, discovered |-> << >>,
                   best_candidates |-> << >>, best_candidate |-> None,
                   mapped |-> NoCall, result |-> None ]
    IN  IF fault.step = "threshold_otsu" THEN blank
        ELSE IF loop.raised
        THEN [ blank EXCEPT !.polarities = loop.polarities,
                            !.discovered = loop.best_candidates,
                            !.best_candidates = loop.best_candidates ]
        ELSE IF pick.raised
        THEN [ blank EXCEPT !.polarities = loop.polarities ]
        ELSE IF pick.best_candidate = None
        THEN [ blank EXCEPT !.raised = FALSE, !.polarities = loop.polarities ]
        ELSE LET call == AngleToReading(pick.best_candidate[1].orientation,
                                        min_val, max_val)
             IN  [ raised          |-> FALSE,
                   polarities      |-> loop.polarities,
                   discovered      |-> loop.best_candidates,
                   best_candidates |-> pick.best_candidates,
                   best_candidate  |-> pick.best_candidate,
                   mapped          |-> call,
                   result          |-> Some(call.reading) ]

\* ----------------------------------------------------- process_gauge_image
\* The locals of a threshold detection that was never started.
NotDetected ==
    [ raised |-> FALSE, polarities |-> << >>, discovered |-> << >>,
      best_candidates |-> << >>, best_candidate |-> None,
      mapped |-> NoCall, result |-> None ]

\* The functions process_gauge_image reaches once the image is decoded, in
\* call order: only _detect_gauge_threshold (the Hough detector
\* _detect_gauge is not called), and through it _angle_to_reading.
StrategyCalls(detect) ==
    << "_detect_gauge_threshold" >>
    \o (IF detect.mapped # NoCall THEN << "_angle_to_reading" >> ELSE << >>)

\* process_gauge_image(image_bytes, min_val, max_val), with the library call
\* that raises (fault) and whether scikit-image imports (skimage):
\*   calls      the functions called, in order;
\*   caught     the handler that ended the call ("none" when it returned
\*              from the body);
\*   exception  the exception that reaches the caller ("none": every
\*              Exception is caught);
\*   result     the value returned.
ProcessGaugeImage(image_bytes, fault, skimage, min_val, max_val) ==
    LET detect == DetectGaugeThreshold(image_bytes, fault, min_val, max_val)
    IN  IF ~skimage
        THEN [ calls |-> << >>, caught |-> "ImportError",
               exception |-> "none", detect |-> NotDetected, result |-> None ]
        ELSE IF ~image_bytes.decodable
        THEN [ calls |-> << "imread" >>, caught |-> "Exception",
               exception |-> "none", detect |-> NotDetected, result |-> None ]
        ELSE IF detect.raised
        THEN [ calls |-> << "imread" >> \o StrategyCalls(detect),
               caught |-> "Exception", exception |-> "none",
               detect |-> detect, result |-> None ]
        ELSE [ calls |-> << "imread" >> \o StrategyCalls(detect),
               caught |-> "none", exception |-> "none",
               detect |-> detect, result |-> detect.result ]

\* No call of process_gauge_image has been made.
NoRun == [ calls |-> << >>, caught |-> "none", exception |-> "none",
           detect |-> NotDetected, result |-> None ]

\* ------------------------------------------------------------ const.py
\* Text is a sequence of characters.
\* interval_options = ["1 minute", "15 minutes"]
interval_options ==
    { << "1", " ", "m", "i", "n", "u", "t", "e" >>,
      << "1", "5", " ", "m", "i", "n", "u", "t", "e", "s" >> }

\* The names const.py defines.
ConstNames ==
    { "DOMAIN", "CONF_CAMERA_ENTITY", "CONF_INTERVAL", "CONF_MIN_READING",
      "CONF_MAX_READING", "CONF_ALARM_1", "CONF_ALARM_2", "CONF_ALARM_3",
      "DEFAULT_INTERVAL", "interval_options" }

\* What the package's const module can hold when coordinator.py is
\* imported: the names of const.py, or those and CONF_SNAPSHOT_URL, which a
\* caller has to supply before any code of coordinator.py can run.
ConstModules == { ConstNames, ConstNames \cup { "CONF_SNAPSHOT_URL" } }

\* ---------------------------------------------------------- coordinator.py
\* from .const import (DOMAIN, CONF_SNAPSHOT_URL, CONF_INTERVAL,
\*                     CONF_MIN_READING, CONF_MAX_READING)
CoordinatorImports ==
    { "DOMAIN", "CONF_SNAPSHOT_URL", "CONF_INTERVAL", "CONF_MIN_READING",
      "CONF_MAX_READING" }

\* from module import names: succeeds when the module defines every name,
\* raises ImportError otherwise.
ImportFrom(names, defined) == names \subseteq defined

\* ---------------------------------------------- ConfigFlow.async_step_user
\* The entries the model starts from: the interval the form stored (one of
\* interval_options) or none stored, and whether data holds a snapshot URL
\* (the form stores a camera entity, not a URL).
Entries ==
    { [ interval |-> iv, has_snapshot_url |-> u ] :
      iv \in { None } \cup { Some(t) : t \in interval_options },
      u \in BOOLEAN }

\* --------------------------------------------- GaugeCoordinator.__init__
\* entry.data.get(CONF_INTERVAL, 15): the default when no interval is stored.
default_interval == 15

Digits == { "0", "1", "2", "3", "4", "5", "6", "7", "8", "9" }

DigitValue(c) ==
    CASE c = "0" -> 0 [] c = "1" -> 1 [] c = "2" -> 2 [] c = "3" -> 3
      [] c = "4" -> 4 [] c = "5" -> 5 [] c = "6" -> 6 [] c = "7" -> 7
      [] c = "8" -> 8 [] c = "9" -> 9

RECURSIVE DecimalValue(_)
DecimalValue(text) ==
    IF text = << >> THEN 0
    ELSE 10 * DecimalValue(SubSeq(text, 1, Len(text) - 1))
         + DigitValue(text[Len(text)])

\* int(text): the value of a text made of decimal digits only; any other
\* text raises ValueError (ok is FALSE).
IntOf(text) ==
    IF text # << >> /\ \A i \in 1..Len(text) : text[i] \in Digits
    THEN [ ok |-> TRUE, value |-> DecimalValue(text) ]
    ELSE [ ok |-> FALSE, value |-> 0 ]

\* GaugeCoordinator(hass, entry): the coordinator built, its update
\* interval in minutes, or the exception that left the constructor.
GaugeCoordinatorInit(entry_data) ==
    LET interval_minutes ==
            IF entry_data.interval = None
            THEN [ ok |-> TRUE, value |-> default_interval ]
            ELSE IntOf(entry_data.interval[1])
    IN  IF interval_minutes.ok
        THEN [ status |-> "built", update_interval |-> interval_minutes.value ]
        ELSE [ status |-> "ValueError", update_interval |-> 0 ]

\* No GaugeCoordinator has been constructed.
NotBuilt == [ status |-> "none", update_interval |-> 0 ]

\* Importing coordinator.py raised ImportError: there is no GaugeCoordinator
\* class to construct.
ImportFailed == [ status |-> "ImportError", update_interval |-> 0 ]

\* ------------------------------------ GaugeCoordinator._async_update_data
\* if len(image_bytes) < 1000
min_image_len == 1000

\* What fetch_image_sync can hand back: corrupt buffers of 0 and 2000
\* bytes, and images of 999 and 1000 bytes holding at most one region,
\* darker than the background.
SnapshotLens == { 999, 1000 }

Snapshots ==
    CorruptImages
    \cup
    { [ im EXCEPT !.len = n ] :
      im \in ImagesOfSize(0, 0) \cup ImagesOfSize(1, 0),
      n \in SnapshotLens }

\* The calibrations of the entries a coordinator is built from.
CoordinatorCalValues == { 0, 3000 }

\* The outcome of fetch_image_sync: the bytes read, or an exception of
\* urlopen.
Fetches ==
    { [ kind |-> "error", image |-> NoImage ] }
    \cup { [ kind |-> "bytes", image |-> im ] : im \in Snapshots }

\* The locals of one polling cycle, _async_update_data():
\*   phase    "fetching" and "processing" while the coroutine waits for its
\*            first and second executor job, "over" once it has ended;
\*   trace    the executor jobs submitted, in order;
\*   fetched  how the fetch ended ("none": not ended), len the length of
\*            the bytes it returned;
\*   min_reading, max_reading  the calibration read from entry.data before
\*            the first await;
\*   outcome  "returned", or the exception that left the method;
\*   value    the value returned.
\* No polling cycle has run.
NoCycle == [ phase |-> "none", trace |-> << >>, fetched |-> "none",
             len |-> 0, min_reading |-> 0, max_reading |-> 0,
             outcome |-> "none", value |-> None ]

\* The method up to its first await: entry.data is read (KeyError when it
\* holds no snapshot URL) and the fetch job is submitted.
StartUpdate(entry_data, min_val, max_val) ==
    IF ~entry_data.has_snapshot_url
    THEN [ NoCycle EXCEPT !.phase = "over", !.outcome = "KeyError" ]
    ELSE [ NoCycle EXCEPT !.phase = "fetching",
                          !.trace = << "fetch_image_sync" >>,
                          !.min_reading = min_val,
                          !.max_reading = max_val ]

\* Mutant of FetchReturned: the length of the snapshot is not tested.
FetchReturnedNoLengthTest(c, fetch) ==
    IF fetch.kind = "error"
    THEN [ c EXCEPT !.phase = "over", !.fetched = "error",
                    !.outcome = "UpdateFailed" ]
    ELSE [ c EXCEPT !.phase = "processing",
                    !.trace = Append(@, "process_gauge_image"),
                    !.fetched = "bytes", !.len = fetch.image.len ]

\* From the end of the fetch job to the second await: a fetch that raised
\* and a buffer shorter than 1000 bytes end the cycle with UpdateFailed,
\* any other buffer is submitted to process_gauge_image.
FetchReturned(c, fetch) ==
    IF fetch.kind = "error"
    THEN [ c EXCEPT !.phase = "over", !.fetched = "error",
                    !.outcome = "UpdateFailed" ]
    ELSE IF fetch.image.len < min_image_len
    THEN [ c EXCEPT !.phase = "over", !.fetched = "bytes",
                    !.len = fetch.image.len, !.outcome = "UpdateFailed" ]
    ELSE [ c EXCEPT !.phase = "processing",
                    !.trace = Append(@, "process_gauge_image"),
                    !.fetched = "bytes", !.len = fetch.image.len ]

\* From the end of the processing job to the end of the method: the value
\* of the engine, None included, is returned. process_gauge_image catches
\* every Exception, so the handler around the second job has nothing to
\* catch.
ProcessReturned(c, value) ==
    [ c EXCEPT !.phase = "over", !.outcome = "returned", !.value = value ]

\* ------------------------------------------------ GaugeAlarmSensor.is_on
\* Thresholds of the alarm sensors (thousandths).
AlarmThresholds == { 1330, 2500, 3000 }

\* Mutant of IsOn: the alarm is on only above the threshold.
IsOnStrictlyAbove(coordinator_data, threshold) ==
    IF coordinator_data = None THEN None
    ELSE Some(coordinator_data[1] > threshold)

\* is_on of the alarm sensor with this threshold: None, or whether
\* coordinator.data >= threshold.
IsOn(coordinator_data, threshold) ==
    IF coordinator_data = None THEN None
    ELSE Some(coordinator_data[1] >= threshold)

\* GaugeSensor.native_value
NativeValue(coordinator_data) == coordinator_data

\* ------------------------------------------------------------------ state
VARIABLES
    min_reading,    \* entry.data[CONF_MIN_READING], thousandths
    max_reading,    \* entry.data[CONF_MAX_READING], thousandths
    mapped,         \* locals and result of the latest _angle_to_reading call
    prev_mapped,    \* those of the direct call before it
    pc,             \* "idle" before process_gauge_image is called, then "done"
    image_bytes,    \* the buffer passed to process_gauge_image
    fault,          \* the library call that raised during it
    skimage,        \* whether scikit-image could be imported
    run,            \* what the process_gauge_image call did and returned
    const_names,    \* the names the const module holds at import time
    entry,          \* the rest of entry.data: interval, snapshot URL
    coordinator,    \* the GaugeCoordinator constructed from the entry
    data,           \* coordinator.data
    last_update_success,    \* coordinator.last_update_success
    cycle           \* the locals of the latest _async_update_data call

vars == << min_reading, max_reading, mapped, prev_mapped,
           pc, image_bytes, fault, skimage, run,
           const_names, entry, coordinator, data, last_update_success,
           cycle >>

engine_vars == << pc, image_bytes, fault, skimage, run >>

coordinator_vars ==
    << const_names, entry, coordinator, data, last_update_success, cycle >>

\* The configuration flow stores any two floats as the calibration; nothing
\* has been called.
Init ==
    /\ min_reading \in CalValues
    /\ max_reading \in CalValues
    /\ mapped = NoCall
    /\ prev_mapped = NoCall
    /\ pc = "idle"
    /\ image_bytes = NoImage
    /\ fault = NoFault
    /\ skimage = TRUE
    /\ run = NoRun
    /\ const_names = ConstNames
    /\ entry = [ interval |-> None, has_snapshot_url |-> TRUE ]
    /\ coordinator = NotBuilt
    /\ data = None
    /\ last_update_success = TRUE
    /\ cycle = NoCycle

\* The same, for every entry: with the interval the configuration flow
\* stored or none, with or without a snapshot URL; and for const.py alone
\* or completed with CONF_SNAPSHOT_URL.
InitCoordinator ==
    /\ min_reading \in CoordinatorCalValues
    /\ max_reading \in CoordinatorCalValues
    /\ mapped = NoCall
    /\ prev_mapped = NoCall
    /\ pc = "idle"
    /\ image_bytes = NoImage
    /\ fault = NoFault
    /\ skimage = TRUE
    /\ run = NoRun
    /\ const_names \in ConstModules
    /\ entry \in Entries
    /\ coordinator = NotBuilt
    /\ data = None
    /\ last_update_success = TRUE
    /\ cycle = NoCycle

\* A direct call _angle_to_reading(angle_rad, min_reading, max_reading); a
\* behaviour holds at most two such calls.
AngleToReadingCall ==
    /\ prev_mapped = NoCall
    /\ \E angle_rad \in Angles :
          mapped' = AngleToReading(angle_rad, min_reading, max_reading)
    /\ prev_mapped' = mapped
    /\ UNCHANGED << min_reading, max_reading >>
    /\ UNCHANGED engine_vars
    /\ UNCHANGED coordinator_vars

\* One call process_gauge_image(image_bytes, min_reading, max_reading). The
\* engine keeps nothing between calls, so a behaviour holds one call.
ProcessGaugeImageCall ==
    /\ pc = "idle"
    /\ \E im \in Images, f \in Faults, sk \in BOOLEAN :
          \* a library call can raise only when the library was imported
          /\ IF sk THEN TRUE ELSE f = NoFault
          /\ image_bytes' = im
          /\ fault' = f
          /\ skimage' = sk
          /\ LET outcome == ProcessGaugeImage(im, f, sk, min_reading,
                                               max_reading)
             IN  /\ run' = outcome
                 /\ mapped' = outcome.detect.mapped
    /\ pc' = "done"
    /\ UNCHANGED << min_reading, max_reading, prev_mapped >>
    /\ UNCHANGED coordinator_vars

\* from .coordinator import GaugeCoordinator, then
\* coordinator = GaugeCoordinator(hass, entry), once per entry. The import
\* of coordinator.py fails unless the const module holds every name it asks
\* for.
GaugeCoordinatorConstruct ==
    /\ coordinator = NotBuilt
    /\ coordinator' = IF ImportFrom(CoordinatorImports, const_names)
                      THEN GaugeCoordinatorInit(entry)
                      ELSE ImportFailed
    /\ UNCHANGED << min_reading, max_reading, mapped, prev_mapped >>
    /\ UNCHANGED engine_vars
    /\ UNCHANGED << const_names, entry, data, last_update_success, cycle >>

\* DataUpdateCoordinator, at the end of a cycle: the value returned is
\* stored in data; when the method raised, data keeps its value and
\* last_update_success becomes False.
Refreshed(c) ==
    IF c.phase = "over"
    THEN /\ data' = IF c.outcome = "returned" THEN c.value ELSE data
         /\ last_update_success' = (c.outcome = "returned")
    ELSE UNCHANGED << data, last_update_success >>

\* A polling cycle of a constructed coordinator starts, one at a time:
\* _async_update_data runs up to its first await.
AsyncUpdateDataStart ==
    /\ coordinator.status = "built"
    /\ cycle.phase \in { "none", "over" }
    /\ cycle' = StartUpdate(entry, min_reading, max_reading)
    /\ Refreshed(cycle')
    /\ UNCHANGED << min_reading, max_reading, mapped, prev_mapped >>
    /\ UNCHANGED engine_vars
    /\ UNCHANGED << const_names, entry, coordinator >>

\* The fetch job ends and the method runs up to its second await, where
\* process_gauge_image(image_bytes, min_reading, max_reading) is submitted
\* with the calibration read at the start of the cycle.
AsyncUpdateDataFetched ==
    /\ cycle.phase = "fetching"
    /\ \E fetch \in Fetches :
          /\ cycle' = FetchReturned(cycle, fetch)
          /\ image_bytes' = IF cycle'.phase = "processing"
                            THEN fetch.image ELSE image_bytes
    /\ Refreshed(cycle')
    /\ UNCHANGED << min_reading, max_reading, mapped, prev_mapped >>
    /\ UNCHANGED << pc, fault, skimage, run >>
    /\ UNCHANGED << const_names, entry, coordinator >>

\* The processing job ends: process_gauge_image has run on the buffer and
\* the method returns its value.
AsyncUpdateDataProcessed ==
    /\ cycle.phase = "processing"
    /\ \E f \in Faults, sk \in BOOLEAN :
          /\ IF sk THEN TRUE ELSE f = NoFault
          /\ fault' = f
          /\ skimage' = sk
          /\ LET outcome == ProcessGaugeImage(image_bytes, f, sk,
                                               cycle.min_reading,
                                               cycle.max_reading)
             IN  /\ run' = outcome
                 /\ mapped' = IF outcome.detect.mapped # NoCall
                              THEN outcome.detect.mapped ELSE mapped
                 /\ cycle' = ProcessReturned(cycle, outcome.result)
    /\ pc' = "done"
    /\ Refreshed(cycle')
    /\ UNCHANGED << min_reading, max_reading, prev_mapped, image_bytes >>
    /\ UNCHANGED << const_names, entry, coordinator >>

\* hass.config_entries.async_update_entry(entry, data=...): the event loop
\* runs a callback that stores another calibration in entry.data, also
\* while a cycle waits for a job.
EntryDataUpdated ==
    /\ \E lo \in CoordinatorCalValues, hi \in CoordinatorCalValues :
          /\ << lo, hi >> # << min_reading, max_reading >>
          /\ min_reading' = lo
          /\ max_reading' = hi
    /\ UNCHANGED << mapped, prev_mapped >>
    /\ UNCHANGED engine_vars
    /\ UNCHANGED coordinator_vars

Next == ProcessGaugeImageCall

\* The engine: calls of process_gauge_image.
Spec == Init /\ [][Next]_vars

\* The mapper alone: direct calls of _angle_to_reading.
SpecMapper == Init /\ [][AngleToReadingCall]_vars

NextCoordinator ==
    \/ GaugeCoordinatorConstruct
    \/ AsyncUpdateDataStart
    \/ AsyncUpdateDataFetched
    \/ AsyncUpdateDataProcessed
    \/ EntryDataUpdated

\* The coordinator: the import of its module and its construction from an
\* entry, then polling cycles, each in steps that end at an await, with
\* updates of entry.data in between.
SpecCoordinator == InitCoordinator /\ [][NextCoordinator]_vars

\* ----------------------------------------------------------------- claims
\* A call of _angle_to_reading has been made and its locals are in mapped.
Called == mapped # NoCall

\* C1 (as claimed): for every input angle and every calibration with
\* min_value <= max_value, the value _angle_to_reading returns lies within
\* [min_value, max_value].
C1_ReadingWithinCalibration ==
    (Called /\ min_reading <= max_reading)
        => (min_reading <= mapped.reading /\ mapped.reading <= max_reading)

\* C2 (as claimed): an input whose relative angle (needle_angle - 225 mod
\* 360) is 0 yields min_value and one whose relative angle is 270 yields
\* max_value, for every calibration.
C2_BoundaryReadings ==
    Called =>
        /\ (mapped.first_relative = 0 => mapped.reading = min_reading)
        /\ (mapped.first_relative = gauge_sweep => mapped.reading = max_reading)

\* C3: with min=0 and max=3, of two calls whose relative angles satisfy
\* 0 <= r1 <= r2 <= 270 the second does not return the smaller reading.
C3_MonotoneOverSweep ==
    ( /\ min_reading = 0
      /\ max_reading = 3000
      /\ prev_mapped # NoCall
      /\ prev_mapped.first_relative <= mapped.first_relative
      /\ mapped.first_relative <= gauge_sweep )
        => prev_mapped.reading <= mapped.reading

\* Two calls at relative angles 90 and 225 returned 1.0 and 2.5.
C3_Witness ==
    /\ min_reading = 0
    /\ max_reading = 3000
    /\ prev_mapped # NoCall
    /\ prev_mapped.first_relative = 90
    /\ prev_mapped.reading = 1000
    /\ mapped.first_relative = 225
    /\ mapped.reading = 2500

\* C4: when the relative angle exceeds the sweep, the antipodal angle
\* (needle_angle + 180 - 225) mod 360 is tested; if it lies in [0, 270] the
\* reading is computed from it, otherwise the relative angle is clamped to
\* the sweep and the reading is max_value.
C4_AntipodeTested ==
    (Called /\ mapped.first_relative > gauge_sweep) =>
        /\ mapped.alt_angle = (mapped.needle_angle + 180 - 225) % 360
        /\ IF mapped.alt_angle >= 0 /\ mapped.alt_angle <= 270
           THEN /\ mapped.relative_angle = mapped.alt_angle
                /\ mapped.reading =
                      Round2(Max2(270 * min_reading,
                                  Min2(270 * max_reading,
                                       270 * min_reading + mapped.alt_angle
                                           * (max_reading - min_reading))))
           ELSE /\ mapped.relative_angle = 270
                /\ mapped.reading = Round2(270 * max_reading)

\* A call at relative angle 300 with min=0, max=3: the antipode 120 is used
\* and the reading is 1.33.
C4_Witness ==
    /\ min_reading = 0
    /\ max_reading = 3000
    /\ Called
    /\ mapped.first_relative = 300
    /\ mapped.alt_angle = 120
    /\ mapped.relative_angle = 120
    /\ mapped.reading = 1330

\* The call of process_gauge_image is over and it had decoded its image.
Decoded == pc = "done" /\ skimage /\ image_bytes.decodable

\* The regions of an image, in one direction, that pass the needle filter.
AdmittedIn(direction) ==
    { i \in 1..Len(image_bytes[direction]) :
        LET r == image_bytes[direction][i]
        IN  /\ r.eccentricity > 70
            /\ r.area > 100
            /\ DistSq(r, image_bytes)
                  < RadiusEstimate(image_bytes) * RadiusEstimate(image_bytes) }

\* C5: from a non-empty merged candidate list the selector returns a
\* candidate of maximum length whatever the order of the list, and among
\* several of maximum length the one discovered earliest (darker before
\* lighter, then region order).
C5_LongestEarliestSelected ==
    (pc = "done" /\ ~run.detect.raised /\ run.detect.discovered # << >>) =>
        LET d == run.detect.discovered
            best == run.detect.best_candidate
        IN  /\ best # None
            /\ \A i \in 1..Len(d) : d[i].length <= best[1].length
            /\ \E i \in 1..Len(d) :
                  /\ d[i] = best[1]
                  /\ \A j \in 1..(i - 1) : d[j].length < best[1].length
            /\ \A i, j \in 1..Len(d) :
                  (d[i].direction = "darker" /\ d[j].direction = "lighter")
                      => i < j

\* A darker and a lighter candidate of the same length and different
\* orientation were merged: the darker one, discovered first, is selected.
C5_Witness ==
    /\ pc = "done"
    /\ Len(run.detect.discovered) = 2
    /\ run.detect.discovered[1].length = 50
    /\ run.detect.discovered[2].length = 50
    /\ run.detect.discovered[1].direction = "darker"
    /\ run.detect.discovered[2].direction = "lighter"
    /\ run.detect.discovered[1].orientation # run.detect.discovered[2].orientation
    /\ run.detect.best_candidate = Some(run.detect.discovered[1])

\* C6 (as claimed): on every call that decodes an image both the edge/line
\* strategy _detect_gauge and the threshold strategy _detect_gauge_threshold
\* are run.
C6_BothStrategiesRun ==
    Decoded =>
        /\ \E i \in 1..Len(run.calls) : run.calls[i] = "_detect_gauge"
        /\ \E i \in 1..Len(run.calls) : run.calls[i] = "_detect_gauge_threshold"

\* C7: when no region passes the filter in either direction,
\* process_gauge_image returns None and no exception reaches the caller;
\* unless a library call raised, no exception was raised inside either.
C7_NoCandidateIsUndetected ==
    (Decoded /\ AdmittedIn("darker") = {} /\ AdmittedIn("lighter") = {}) =>
        /\ run.result = None
        /\ run.exception = "none"
        /\ fault.step \in { "none", "remove_small_objects" }
              => run.caught = "none"

\* An image with regions in both directions, none of which passes the
\* filter, was processed without a fault and None was returned.
C7_Witness ==
    /\ Decoded
    /\ fault = NoFault
    /\ Len(image_bytes.darker) > 0
    /\ Len(image_bytes.lighter) > 0
    /\ AdmittedIn("darker") = {}
    /\ AdmittedIn("lighter") = {}
    /\ run.detect.polarities = << "darker", "lighter" >>
    /\ run.result = None
    /\ run.caught = "none"

\* C8 (as claimed): a zero-length or corrupt buffer yields an outcome the
\* caller can tell from Undetected, which is the value None returned without
\* an exception.
C8_DecodeErrorDistinct ==
    (pc = "done" /\ skimage /\ ~image_bytes.decodable)
        => (run.exception # "none" \/ run.result # None)

\* C9 (as claimed): when a processing step of one direction raises, that
\* direction contributes no candidate, and the candidates of the other
\* direction are still merged, selected and mapped to the reading returned.
C9_PolarityFailureIsolated ==
    (Decoded /\ fault.direction \in { "darker", "lighter" }) =>
        LET other == IF fault.direction = "darker" THEN "lighter" ELSE "darker"
            theirs == PolarityCandidates(image_bytes, other, NoFault)
        IN  /\ run.detect.discovered = theirs
            /\ run.result =
                  IF theirs = << >> THEN None
                  ELSE Some(AngleToReading(
                           SelectLongest(theirs).best_candidate[1].orientation,
                           min_reading, max_reading).reading)

\* C10: for a region-derived orientation of 0 rad with min=0 and max=3 the
\* needle angle is 90, the relative angle 225 with no wraparound correction,
\* and the reading 2.5.
C10_ScenarioA ==
    ( /\ pc = "done"
      /\ run.detect.best_candidate # None
      /\ run.detect.best_candidate[1].region.orientation = 0
      /\ min_reading = 0
      /\ max_reading = 3000 )
        => /\ mapped.angle_rad = 0
           /\ mapped.needle_angle = 90
           /\ mapped.first_relative = 225
           /\ mapped.relative_angle = 225
           /\ run.result = Some(2500)

\* The longest candidate of a processed image had orientation 0 and the
\* call returned 2.5 for the calibration 0..3.
C10_Witness ==
    /\ pc = "done"
    /\ min_reading = 0
    /\ max_reading = 3000
    /\ run.detect.best_candidate # None
    /\ run.detect.best_candidate[1].region.orientation = 0
    /\ mapped.relative_angle = 225
    /\ run.result = Some(2500)

\* C14: with start 225 and sweep 270, whenever the relative angle exceeds
\* 270 the antipodal angle equals it less 180 and lies strictly between 90
\* and 180, so the antipode is taken and the relative angle is never
\* clamped to the sweep.
C14_AntipodeAlwaysAccepted ==
    (Called /\ mapped.first_relative > 270) =>
        /\ mapped.alt_angle = mapped.first_relative - 180
        /\ mapped.alt_angle > 90
        /\ mapped.alt_angle < 180
        /\ mapped.relative_angle = mapped.alt_angle
        /\ mapped.relative_angle # 270

\* A call at relative angle 355: the antipode 175 is taken.
C14_Witness ==
    /\ Called
    /\ mapped.first_relative = 355
    /\ mapped.alt_angle = 175
    /\ mapped.relative_angle = 175

\* C15: for every orientation within [-90, +90] degrees and every
\* calibration with min_value <= max_value, the relative angle the reading
\* is computed from lies in (90, 270], and the reading is not below
\* min_value + (max_value - min_value)/3 by more than the half hundredth
\* that rounding can take away.
C15_LowerThirdUnreachable ==
    ( /\ Called
      /\ mapped.angle_rad >= -MaxOrientation
      /\ mapped.angle_rad <= MaxOrientation
      /\ min_reading <= max_reading )
        => /\ mapped.relative_angle > 90
           /\ mapped.relative_angle <= 270
           /\ 3 * (mapped.reading + 5) >= 2 * min_reading + max_reading

\* The orientation of 50 degrees with calibration 0..3: the antipode 95 is
\* the relative angle and the reading 1.06 is just above the lower third.
C15_Witness ==
    /\ Called
    /\ min_reading = 0
    /\ max_reading = 3000
    /\ mapped.angle_rad = 10
    /\ mapped.first_relative = 275
    /\ mapped.relative_angle = 95
    /\ mapped.reading = 1060

\* A polling cycle has ended and its locals are in cycle.
Polled == cycle.phase = "over"

\* How often the latest cycle invoked process_gauge_image.
EngineCalls ==
    Cardinality({ i \in 1..Len(cycle.trace) :
                    cycle.trace[i] = "process_gauge_image" })

\* C11: in every polling cycle process_gauge_image is invoked at most once
\* and only after the fetch returned at least 1000 bytes; a fetch error or
\* a shorter buffer ends the cycle with UpdateFailed without invoking the
\* engine; and a cycle that invoked the engine, also when the engine found
\* nothing, ends by returning the engine's value without raising.
C11_EngineOncePerCycle ==
    /\ EngineCalls <= 1
    /\ EngineCalls = 1 =>
          /\ cycle.fetched = "bytes"
          /\ cycle.len >= 1000
          /\ cycle.trace = << "fetch_image_sync", "process_gauge_image" >>
          /\ image_bytes.len = cycle.len
    /\ Polled =>
          /\ EngineCalls = 1 =>
                /\ cycle.outcome = "returned"
                /\ cycle.value = run.result
                /\ data = cycle.value
                /\ last_update_success
          /\ (cycle.fetched = "error"
              \/ (cycle.fetched = "bytes" /\ cycle.len < 1000)) =>
                /\ cycle.outcome = "UpdateFailed"
                /\ EngineCalls = 0
                /\ ~last_update_success

\* The fetch returned exactly 1000 bytes, the engine ran once and found no
\* needle, and the cycle returned None.
C11_Witness ==
    /\ Polled
    /\ run # NoRun
    /\ cycle.fetched = "bytes"
    /\ cycle.len = 1000
    /\ cycle.trace = << "fetch_image_sync", "process_gauge_image" >>
    /\ cycle.outcome = "returned"
    /\ cycle.value = None
    /\ data = None
    /\ last_update_success

\* C12: after any polling cycle each alarm sensor's is_on is None exactly
\* when coordinator.data is None, and otherwise is true exactly when data >=
\* its threshold; so of two alarms the one with the higher threshold being
\* on implies the other is on. The pressure sensor shows data itself.
C12_AlarmFollowsReading ==
    Polled =>
        /\ NativeValue(data) = data
        /\ \A t \in AlarmThresholds :
              /\ (IsOn(data, t) = None) <=> (data = None)
              /\ data # None =>
                    (IsOn(data, t) = Some(TRUE)) <=> (data[1] >= t)
        /\ \A t1, t2 \in AlarmThresholds :
              (t1 <= t2 /\ IsOn(data, t2) = Some(TRUE))
                  => IsOn(data, t1) = Some(TRUE)

\* A cycle returned 2.5: the alarms at 1.33 and at 2.5 are on, the alarm at
\* 3.0 is off.
C12_Witness ==
    /\ Polled
    /\ cycle.outcome = "returned"
    /\ data = Some(2500)
    /\ IsOn(data, 1330) = Some(TRUE)
    /\ IsOn(data, 2500) = Some(TRUE)
    /\ IsOn(data, 3000) = Some(FALSE)

\* C13 (as claimed): for every interval option the configuration flow can
\* store, constructing GaugeCoordinator succeeds and sets the polling
\* interval to that number of minutes (1 or 15); with no interval stored
\* the interval is 15 minutes.
C13_IntervalFromOption ==
    coordinator # NotBuilt =>
        /\ coordinator.status = "built"
        /\ coordinator.update_interval =
              IF entry.interval
                    = Some(<< "1", " ", "m", "i", "n", "u", "t", "e" >>)
              THEN 1 ELSE 15
====
